---- MODULE Spec2Model ----
(***************************************************************************)
(* Model of the transaction builders of bubblegum_nifs                     *)
(* (native/bubblegum_nifs/src/core.rs and utils.rs).                       *)
(*                                                                         *)
(* Every builder is a pure, single-call function of its arguments.  The    *)
(* initial state holds one pending call (the NIF name and its arguments),  *)
(* one action per NIF applies the builder, and the outcome records what    *)
(* the host observes (an error term, a panic, or a TransactionStruct)      *)
(* together with the instructions that were built and the order in which   *)
(* the builder's statements ran.                                           *)
(***************************************************************************)
EXTENDS Integers, Sequences, FiniteSets, TLC

VARIABLES nif, args, out

vars == <<nif, args, out>>

(***************************************************************************)
(* Bounds of the explored inputs.                                          *)
(***************************************************************************)
\* at most this many malformed fields in one call
MaxMalformed == 1
\* at most this many proof addresses in one transfer
MaxProofs == 2
\* at most this many creators in one metadata description
MaxCreators == 1
\* use_method codes 0..MaxUseCode are explored (and 255, the largest u8)
MaxUseCode == 5

(***************************************************************************)
(* Program constants.                                                      *)
(***************************************************************************)
HASH_LEN == 32

(***************************************************************************)
(* Results of fallible library calls: Result<T, E>.                        *)
(***************************************************************************)
Ok(v) == [ok |-> TRUE, v |-> v, msg |-> ""]
Err(m) == [ok |-> FALSE, v |-> <<>>, msg |-> m]

(***************************************************************************)
(* Text encodings accepted by the ledger library.  A public key is the     *)
(* pair <<kind, name>>; its base-58 text is a different value, and only    *)
(* the texts of the table decode.                                          *)
(***************************************************************************)
Base58 ==
    ("addrT" :> <<"key", "T">>) @@ ("addrA" :> <<"key", "A">>) @@
    ("addrB" :> <<"key", "B">>) @@ ("addrN" :> <<"key", "N">>) @@
    ("addrM" :> <<"key", "M">>) @@ ("addrC" :> <<"key", "C">>) @@
    ("addrX" :> <<"key", "X">>) @@ ("addrY" :> <<"key", "Y">>) @@
    ("addrP" :> <<"key", "P">>) @@ ("addrQ" :> <<"key", "Q">>)

\* secret key bytes that decode to a key pair, with the public key they hold
Ed25519 ==
    ("secretA" :> <<"key", "A">>) @@ ("secretB" :> <<"key", "B">>) @@
    ("secretM" :> <<"key", "M">>)

Blockhashes == ("hashH" :> <<"hash", "H">>)

\* Pubkey::from_str
Pubkey_from_str(s) ==
    IF s \in DOMAIN Base58 THEN Ok(Base58[s]) ELSE Err("ParsePubkeyError")

\* Keypair::from_bytes and Keypair::pubkey
Keypair_from_bytes(secret) ==
    IF secret \in DOMAIN Ed25519
    THEN Ok([secret |-> secret, pubkey |-> Ed25519[secret]])
    ELSE Err("SignatureError")

\* Hash::from_str
Hash_from_str(s) ==
    IF s \in DOMAIN Blockhashes THEN Ok(Blockhashes[s]) ELSE Err("ParseHashError")

(***************************************************************************)
(* Program ids and program-derived addresses.                              *)
(***************************************************************************)
spl_noop_ID == <<"program", "spl_noop">>
spl_account_compression_ID == <<"program", "spl_account_compression">>
system_program_ID == <<"program", "system">>
mpl_bubblegum_ID == <<"program", "mpl_bubblegum">>
mpl_token_metadata_ID == <<"program", "mpl_token_metadata">>

\* TreeConfig::find_pda(&merkle_tree).0
TreeConfig_find_pda(merkle_tree) == <<"pda:tree_config", merkle_tree[2]>>
\* Metadata::find_pda(&mint).0
Metadata_find_pda(mint) == <<"pda:metadata", mint[2]>>
\* MasterEdition::find_pda(&mint).0
MasterEdition_find_pda(mint) == <<"pda:edition", mint[2]>>
\* Pubkey::find_program_address(&["collection_cpi"], &mpl_bubblegum::ID).0
bubblegum_signer_pda == <<"pda:collection_cpi", "mpl_bubblegum">>

(***************************************************************************)
(* utils.rs                                                                *)
(***************************************************************************)
\* vec_to_array32 with `<` in place of `!=`
vec_to_array32_accepts_longer(vec) ==
    IF Len(vec) < HASH_LEN
    THEN Err("Vector length must be 32")
    ELSE Ok([kind |-> "[u8; 32]", bytes |-> vec])

vec_to_array32(vec) ==
    IF Len(vec) # HASH_LEN
    THEN Err("Vector length must be 32")
    ELSE Ok([kind |-> "[u8; 32]", bytes |-> vec])

(***************************************************************************)
(* Domain model converter.                                                 *)
(***************************************************************************)
\* Option<T>
None == <<>>
Some(x) == <<x>>
IsSome(o) == Len(o) = 1

to_rust_creator(creator) ==
    LET address == Pubkey_from_str(creator.address)
    IN  IF ~address.ok
        THEN Err("Invalid pubkey format for creator")
        ELSE Ok([address |-> address.v,
                 verified |-> creator.verified,
                 share |-> creator.share])

\* the match with Multiple and Single exchanged and no rejecting arm
use_method_swapped(code) ==
    CASE code = 0 -> Ok("Burn")
      [] code = 1 -> Ok("Single")
      [] code = 2 -> Ok("Multiple")
      [] OTHER -> Ok("Single")

\* the match on uses.use_method
use_method_from_code(code) ==
    CASE code = 0 -> Ok("Burn")
      [] code = 1 -> Ok("Multiple")
      [] code = 2 -> Ok("Single")
      [] OTHER -> Err("Invalid use method")

to_rust_metadata_args(m) ==
    LET created == [i \in DOMAIN m.creators |-> to_rust_creator(m.creators[i])]
        badCreators == {i \in DOMAIN created : ~created[i].ok}
        key == IF IsSome(m.collection)
               THEN Pubkey_from_str(m.collection[1].key)
               ELSE Ok(<<>>)
        use_method == IF IsSome(m.uses)
                      THEN use_method_from_code(m.uses[1].use_method)
                      ELSE Ok("")
    IN  IF badCreators # {}
        THEN Err("Invalid pubkey format for creator")
        ELSE IF ~key.ok
        THEN Err("Invalid pubkey format for collection")
        ELSE IF ~use_method.ok
        THEN Err(use_method.msg)
        ELSE Ok([name |-> m.name,
                 symbol |-> m.symbol,
                 uri |-> m.uri,
                 seller_fee_basis_points |-> m.seller_fee_basis_points,
                 primary_sale_happened |-> m.primary_sale_happened,
                 is_mutable |-> m.is_mutable,
                 edition_nonce |-> m.edition_nonce,
                 creators |-> [i \in DOMAIN created |-> created[i].v],
                 collection |-> IF IsSome(m.collection)
                                THEN Some([verified |-> m.collection[1].verified,
                                           key |-> key.v])
                                ELSE None,
                 uses |-> IF IsSome(m.uses)
                          THEN Some([use_method |-> use_method.v,
                                     remaining |-> m.uses[1].remaining,
                                     total |-> m.uses[1].total])
                          ELSE None,
                 token_program_version |-> "Original",
                 token_standard |-> Some("NonFungible")])

(***************************************************************************)
(* Instructions of the ledger programs.                                    *)
(***************************************************************************)
AccountMeta_new(pubkey, is_signer) ==
    [pubkey |-> pubkey, is_signer |-> is_signer, is_writable |-> TRUE]

AccountMeta_new_readonly(pubkey, is_signer) ==
    [pubkey |-> pubkey, is_signer |-> is_signer, is_writable |-> FALSE]

\* solana_program::system_instruction::create_account
system_instruction_create_account(from, to, lamports, space, owner) ==
    [program_id |-> system_program_ID,
     accounts |-> <<AccountMeta_new(from, TRUE), AccountMeta_new(to, TRUE)>>,
     data |-> [ix |-> "system::CreateAccount",
               a |-> <<lamports, space>>, owner |-> owner]]

\* CreateTreeConfig { .. }.instruction(CreateTreeConfigInstructionArgs { .. })
CreateTreeConfig_instruction(acc, a) ==
    [program_id |-> mpl_bubblegum_ID,
     accounts |-> <<AccountMeta_new(acc.tree_config, FALSE),
                    AccountMeta_new(acc.merkle_tree, FALSE),
                    AccountMeta_new(acc.payer, TRUE),
                    AccountMeta_new_readonly(acc.tree_creator, TRUE),
                    AccountMeta_new_readonly(acc.log_wrapper, FALSE),
                    AccountMeta_new_readonly(acc.compression_program, FALSE),
                    AccountMeta_new_readonly(acc.system_program, FALSE)>>,
     data |-> [ix |-> "CreateTreeConfig", a |-> a]]

\* MintV1 { .. }.instruction(MintV1InstructionArgs { metadata })
MintV1_instruction(acc, a) ==
    [program_id |-> mpl_bubblegum_ID,
     accounts |-> <<AccountMeta_new(acc.tree_config, FALSE),
                    AccountMeta_new_readonly(acc.leaf_owner, FALSE),
                    AccountMeta_new_readonly(acc.leaf_delegate, FALSE),
                    AccountMeta_new(acc.merkle_tree, FALSE),
                    AccountMeta_new_readonly(acc.payer, TRUE),
                    AccountMeta_new_readonly(acc.tree_creator_or_delegate, TRUE),
                    AccountMeta_new_readonly(acc.log_wrapper, FALSE),
                    AccountMeta_new_readonly(acc.compression_program, FALSE),
                    AccountMeta_new_readonly(acc.system_program, FALSE)>>,
     data |-> [ix |-> "MintV1", a |-> a]]

\* MintToCollectionV1 { .. }.instruction(MintToCollectionV1InstructionArgs { metadata })
MintToCollectionV1_instruction(acc, a) ==
    [program_id |-> mpl_bubblegum_ID,
     accounts |-> <<AccountMeta_new(acc.tree_config, FALSE),
                    AccountMeta_new_readonly(acc.leaf_owner, FALSE),
                    AccountMeta_new_readonly(acc.leaf_delegate, FALSE),
                    AccountMeta_new(acc.merkle_tree, FALSE),
                    AccountMeta_new_readonly(acc.payer, TRUE),
                    AccountMeta_new_readonly(acc.tree_creator_or_delegate, TRUE),
                    AccountMeta_new_readonly(acc.collection_authority, TRUE),
                    AccountMeta_new_readonly(
                        IF IsSome(acc.collection_authority_record_pda)
                        THEN acc.collection_authority_record_pda[1]
                        ELSE mpl_bubblegum_ID, FALSE),
                    AccountMeta_new_readonly(acc.collection_mint, FALSE),
                    AccountMeta_new(acc.collection_metadata, FALSE),
                    AccountMeta_new_readonly(acc.collection_edition, FALSE),
                    AccountMeta_new_readonly(acc.bubblegum_signer, FALSE),
                    AccountMeta_new_readonly(acc.log_wrapper, FALSE),
                    AccountMeta_new_readonly(acc.compression_program, FALSE),
                    AccountMeta_new_readonly(acc.token_metadata_program, FALSE),
                    AccountMeta_new_readonly(acc.system_program, FALSE)>>,
     data |-> [ix |-> "MintToCollectionV1", a |-> a]]

\* Transfer { .. }.instruction(TransferInstructionArgs { .. }); leaf_owner and
\* leaf_delegate are given as (key, is_signer) pairs
Transfer_instruction(acc, a) ==
    [program_id |-> mpl_bubblegum_ID,
     accounts |-> <<AccountMeta_new_readonly(acc.tree_config, FALSE),
                    AccountMeta_new_readonly(acc.leaf_owner[1], acc.leaf_owner[2]),
                    AccountMeta_new_readonly(acc.leaf_delegate[1], acc.leaf_delegate[2]),
                    AccountMeta_new_readonly(acc.new_leaf_owner, FALSE),
                    AccountMeta_new(acc.merkle_tree, FALSE),
                    AccountMeta_new_readonly(acc.log_wrapper, FALSE),
                    AccountMeta_new_readonly(acc.compression_program, FALSE),
                    AccountMeta_new_readonly(acc.system_program, FALSE)>>,
     data |-> [ix |-> "Transfer", a |-> a]]

(***************************************************************************)
(* Message compilation and signing (solana_sdk).                           *)
(***************************************************************************)
RECURSIVE Flatten(_)
Flatten(seqs) ==
    IF seqs = <<>> THEN <<>> ELSE Head(seqs) \o Flatten(Tail(seqs))

\* the payer's meta, every account meta of every instruction, every program id
AllMetas(instructions, payer) ==
    <<AccountMeta_new(payer, TRUE)>>
    \o Flatten([i \in DOMAIN instructions |-> instructions[i].accounts])
    \o [i \in DOMAIN instructions |->
           AccountMeta_new_readonly(instructions[i].program_id, FALSE)]

\* one entry per distinct key, in order of first appearance, flags or-ed
UniqueMetas(metas) ==
    LET first(i) == \A j \in 1..(i - 1) : metas[j].pubkey # metas[i].pubkey
        merged(i) ==
            [pubkey |-> metas[i].pubkey,
             is_signer |-> \E j \in DOMAIN metas :
                 metas[j].pubkey = metas[i].pubkey /\ metas[j].is_signer,
             is_writable |-> \E j \in DOMAIN metas :
                 metas[j].pubkey = metas[i].pubkey /\ metas[j].is_writable]
        all == [i \in DOMAIN metas |-> [first |-> first(i), meta |-> merged(i)]]
        keep(e) == e.first
        kept == SelectSeq(all, keep)
    IN  [i \in DOMAIN kept |-> kept[i].meta]

\* signers before non-signers, writable before read-only, otherwise as met
OrderKeys(unique) ==
    LET sw(m) == m.is_signer /\ m.is_writable
        sr(m) == m.is_signer /\ ~m.is_writable
        nw(m) == ~m.is_signer /\ m.is_writable
        nr(m) == ~m.is_signer /\ ~m.is_writable
    IN  SelectSeq(unique, sw) \o SelectSeq(unique, sr)
        \o SelectSeq(unique, nw) \o SelectSeq(unique, nr)

\* the message over the ordered keys: header, account keys, compiled instructions
Message_compile(ordered, instructions, recent_blockhash) ==
    LET signer(m) == m.is_signer
        ro_signer(m) == m.is_signer /\ ~m.is_writable
        ro_unsigned(m) == ~m.is_signer /\ ~m.is_writable
        position(k) == CHOOSE i \in DOMAIN ordered : ordered[i].pubkey = k
        compile(ix) ==
            [program_id_index |-> position(ix.program_id),
             accounts |-> [j \in DOMAIN ix.accounts |-> position(ix.accounts[j].pubkey)],
             data |-> ix.data]
    IN  [num_required_signatures |-> Len(SelectSeq(ordered, signer)),
         num_readonly_signed |-> Len(SelectSeq(ordered, ro_signer)),
         num_readonly_unsigned |-> Len(SelectSeq(ordered, ro_unsigned)),
         account_keys |-> [i \in DOMAIN ordered |-> ordered[i].pubkey],
         recent_blockhash |-> recent_blockhash,
         instructions |-> [i \in DOMAIN instructions |-> compile(instructions[i])]]

\* Message::new_with_blockhash(instructions, Some(&payer), &recent_blockhash)
Message_new(instructions, payer, recent_blockhash) ==
    Message_compile(OrderKeys(UniqueMetas(AllMetas(instructions, payer))),
                    instructions, recent_blockhash)

\* Signature::default()
Signature_default == [signer |-> <<"none", "none">>, signed |-> <<>>]
\* keypair.sign_message(&message_data)
sign_message(keypair, message) == [signer |-> keypair.pubkey, signed |-> <<message>>]

\* Transaction::sign on the unsigned transaction; Err is its panic
Transaction_sign(message, signing_keypairs) ==
    LET n == message.num_required_signatures
        signs(i, k) == message.account_keys[i] = signing_keypairs[k].pubkey
        mismatch == \E k \in DOMAIN signing_keypairs : \A i \in 1..n : ~signs(i, k)
        signatures ==
            [i \in 1..n |->
                IF \E k \in DOMAIN signing_keypairs : signs(i, k)
                THEN sign_message(
                        signing_keypairs[CHOOSE k \in DOMAIN signing_keypairs : signs(i, k)],
                        message)
                ELSE Signature_default]
    IN  IF mismatch
        THEN Err("Transaction::sign failed with error KeypairPubkeyMismatch")
        ELSE IF \E i \in 1..n : signatures[i] = Signature_default
        THEN Err("Transaction::sign failed with error NotEnoughSigners")
        ELSE Ok([signatures |-> signatures, message |-> message])

\* Transaction::new_signed_with_payer(instructions, Some(&payer), keypairs, blockhash)
Transaction_new_signed_with_payer(instructions, payer, signing_keypairs, recent_blockhash) ==
    Transaction_sign(Message_new(instructions, payer, recent_blockhash), signing_keypairs)

\* bincode::serialize(&value): the bytes remember what they encode
bincode_serialize(type, value) ==
    Ok([encoding |-> "bincode", type |-> type, value |-> <<value>>])

\* sig.as_ref().to_vec()
signature_to_vec(sig) == [type |-> "Vec<u8>", of |-> sig]

Reverse(s) == [i \in DOMAIN s |-> s[Len(s) + 1 - i]]

\* the same collected back to front
signatures_to_vecs_reversed(transaction) ==
    Reverse([i \in DOMAIN transaction.signatures |->
                signature_to_vec(transaction.signatures[i])])

\* transaction.signatures.iter().map(|sig| sig.as_ref().to_vec()).collect()
signatures_to_vecs(transaction) ==
    [i \in DOMAIN transaction.signatures |-> signature_to_vec(transaction.signatures[i])]

(***************************************************************************)
(* What one call leaves behind.                                            *)
(***************************************************************************)
Pending == [tag |-> "pending", msg |-> "", failed |-> "",
            steps |-> <<>>, ixs |-> <<>>, ret |-> <<>>]

\* the statements run up to and including the one labelled `last`
Upto(order, last) ==
    SubSeq(order, 1, CHOOSE i \in DOMAIN order :
                        order[i] = last /\ \A j \in 1..(i - 1) : order[j] # last)

\* `?` on an Err: the NIF returns Err(Error::Term(msg))
Failed(order, field, msg) ==
    [tag |-> "error", msg |-> msg, failed |-> field,
     steps |-> Upto(order, field), ixs |-> <<>>, ret |-> <<>>]

\* the NIF unwinds from a panic while signing
Panicked(order, msg, ixs) ==
    [tag |-> "panic", msg |-> msg, failed |-> "",
     steps |-> Upto(order, "SIGN"), ixs |-> ixs, ret |-> <<>>]

\* Ok(TransactionStruct { message, signatures })
Returned(order, ixs, message, signatures) ==
    [tag |-> "ok", msg |-> "", failed |-> "", steps |-> order, ixs |-> ixs,
     ret |-> <<[message |-> message, signatures |-> signatures]>>]

(***************************************************************************)
(* The builders.  Each `order` lists the builder's statements in source    *)
(* order: a validation is labelled by the argument it checks, BUILD is the *)
(* construction of an instruction, SIGN is new_signed_with_payer and       *)
(* SERIALIZE a bincode::serialize.                                         *)
(***************************************************************************)
create_tree_config_order ==
    <<"payer_info", "merkle_tree_info", "recent_blockhash",
      "BUILD", "BUILD", "SIGN", "SERIALIZE">>

create_tree_config_ix(a) ==
    LET order == create_tree_config_order
        payer_keypair == Keypair_from_bytes(a.payer_info.secret)
        merkle_tree_keypair == Keypair_from_bytes(a.merkle_tree_info.secret)
        merkle_tree_pubkey == merkle_tree_keypair.v.pubkey
        blockhash == Hash_from_str(a.recent_blockhash)
        tree_authority == TreeConfig_find_pda(merkle_tree_pubkey)
        create_account_ix ==
            system_instruction_create_account(
                payer_keypair.v.pubkey, merkle_tree_keypair.v.pubkey,
                a.lamports, a.account_size, spl_account_compression_ID)
        create_tree_ix ==
            CreateTreeConfig_instruction(
                [tree_config |-> tree_authority,
                 merkle_tree |-> merkle_tree_keypair.v.pubkey,
                 payer |-> payer_keypair.v.pubkey,
                 tree_creator |-> payer_keypair.v.pubkey,
                 log_wrapper |-> spl_noop_ID,
                 compression_program |-> spl_account_compression_ID,
                 system_program |-> system_program_ID],
                [max_depth |-> a.max_depth,
                 max_buffer_size |-> a.max_buffer_size,
                 public |-> Some(a.public)])
        ixs == <<create_account_ix, create_tree_ix>>
        transaction ==
            Transaction_new_signed_with_payer(
                ixs, payer_keypair.v.pubkey,
                <<payer_keypair.v, merkle_tree_keypair.v>>, blockhash.v)
        serialized_tx == bincode_serialize("Transaction", transaction.v)
    IN  IF ~payer_keypair.ok
        THEN Failed(order, "payer_info", "Invalid payer keypair")
        ELSE IF ~merkle_tree_keypair.ok
        THEN Failed(order, "merkle_tree_info", "Invalid merkle tree keypair")
        ELSE IF ~blockhash.ok
        THEN Failed(order, "recent_blockhash", "Invalid blockhash")
        ELSE IF ~transaction.ok
        THEN Panicked(order, transaction.msg, ixs)
        ELSE IF ~serialized_tx.ok
        THEN Failed(order, "SERIALIZE", "Failed to serialize transaction")
        ELSE Returned(order, ixs, serialized_tx.v, signatures_to_vecs(transaction.v))

mint_v1_order ==
    <<"tree_authority", "leaf_owner", "leaf_delegate", "merkle_tree", "payer",
      "metadata_args", "recent_blockhash", "BUILD", "SIGN", "SERIALIZE">>

mint_v1_ix(a) ==
    LET order == mint_v1_order
        tree_authority == Pubkey_from_str(a.tree_authority)
        leaf_owner == Pubkey_from_str(a.leaf_owner)
        leaf_delegate == Pubkey_from_str(a.leaf_delegate)
        merkle_tree == Pubkey_from_str(a.merkle_tree)
        payer == Keypair_from_bytes(a.payer.secret)
        metadata == to_rust_metadata_args(a.metadata_args)
        blockhash == Hash_from_str(a.recent_blockhash)
        mint_ix ==
            MintV1_instruction(
                [tree_config |-> tree_authority.v,
                 leaf_delegate |-> leaf_delegate.v,
                 leaf_owner |-> leaf_owner.v,
                 merkle_tree |-> merkle_tree.v,
                 payer |-> payer.v.pubkey,
                 tree_creator_or_delegate |-> payer.v.pubkey,
                 log_wrapper |-> spl_noop_ID,
                 compression_program |-> spl_account_compression_ID,
                 system_program |-> system_program_ID],
                [metadata |-> metadata.v])
        ixs == <<mint_ix>>
        transaction ==
            Transaction_new_signed_with_payer(ixs, payer.v.pubkey, <<payer.v>>, blockhash.v)
        serialized_tx == bincode_serialize("Transaction", transaction.v)
    IN  IF ~tree_authority.ok
        THEN Failed(order, "tree_authority", "Invalid pubkey format for tree authority")
        ELSE IF ~leaf_owner.ok
        THEN Failed(order, "leaf_owner", "Invalid pubkey format for leaf owner")
        ELSE IF ~leaf_delegate.ok
        THEN Failed(order, "leaf_delegate", "Invalid pubkey format for leaf delegate")
        ELSE IF ~merkle_tree.ok
        THEN Failed(order, "merkle_tree", "Invalid pubkey format for merkle tree")
        ELSE IF ~payer.ok
        THEN Failed(order, "payer", "Invalid pubkey format for payer")
        ELSE IF ~metadata.ok
        THEN Failed(order, "metadata_args", metadata.msg)
        ELSE IF ~blockhash.ok
        THEN Failed(order, "recent_blockhash", "Invalid blockhash")
        ELSE IF ~transaction.ok
        THEN Panicked(order, transaction.msg, ixs)
        ELSE IF ~serialized_tx.ok
        THEN Failed(order, "SERIALIZE", "Failed to serialize create tree config instruction")
        ELSE Returned(order, ixs, serialized_tx.v, signatures_to_vecs(transaction.v))

\* the derivation without the is_empty test
collection_metadata_always_derived(collection_metadata, collection_mint) ==
    Ok(Metadata_find_pda(collection_mint))

\* if collection_metadata.is_empty() { Metadata::find_pda(..).0 } else { Pubkey::from_str(..)? }
collection_metadata_or_pda(collection_metadata, collection_mint) ==
    IF collection_metadata = ""
    THEN Ok(Metadata_find_pda(collection_mint))
    ELSE Pubkey_from_str(collection_metadata)

\* if collection_master_edition.is_empty() { MasterEdition::find_pda(..).0 } else { .. }
collection_master_edition_or_pda(collection_master_edition, collection_mint) ==
    IF collection_master_edition = ""
    THEN Ok(MasterEdition_find_pda(collection_mint))
    ELSE Pubkey_from_str(collection_master_edition)

mint_to_collection_v1_order ==
    <<"tree_authority", "leaf_owner", "leaf_delegate", "merkle_tree", "payer",
      "collection_authority", "collection_mint", "collection_metadata",
      "collection_master_edition", "metadata_args", "recent_blockhash",
      "BUILD", "SIGN", "SERIALIZE">>

mint_to_collection_v1_ix(a) ==
    LET order == mint_to_collection_v1_order
        tree_authority == Pubkey_from_str(a.tree_authority)
        leaf_owner == Pubkey_from_str(a.leaf_owner)
        leaf_delegate == Pubkey_from_str(a.leaf_delegate)
        merkle_tree == Pubkey_from_str(a.merkle_tree)
        payer == Keypair_from_bytes(a.payer.secret)
        collection_authority == Pubkey_from_str(a.collection_authority)
        collection_mint == Pubkey_from_str(a.collection_mint)
        collection_metadata ==
            collection_metadata_or_pda(a.collection_metadata, collection_mint.v)
        collection_master_edition ==
            collection_master_edition_or_pda(a.collection_master_edition, collection_mint.v)
        bubblegum_signer == bubblegum_signer_pda
        metadata == to_rust_metadata_args(a.metadata_args)
        blockhash == Hash_from_str(a.recent_blockhash)
        mint_ix ==
            MintToCollectionV1_instruction(
                [tree_config |-> tree_authority.v,
                 leaf_delegate |-> leaf_delegate.v,
                 leaf_owner |-> leaf_owner.v,
                 merkle_tree |-> merkle_tree.v,
                 payer |-> payer.v.pubkey,
                 collection_authority |-> collection_authority.v,
                 collection_mint |-> collection_mint.v,
                 collection_metadata |-> collection_metadata.v,
                 collection_edition |-> collection_master_edition.v,
                 tree_creator_or_delegate |-> payer.v.pubkey,
                 collection_authority_record_pda |-> None,
                 bubblegum_signer |-> bubblegum_signer,
                 token_metadata_program |-> mpl_token_metadata_ID,
                 log_wrapper |-> spl_noop_ID,
                 compression_program |-> spl_account_compression_ID,
                 system_program |-> system_program_ID],
                [metadata |-> metadata.v])
        ixs == <<mint_ix>>
        transaction ==
            Transaction_new_signed_with_payer(ixs, payer.v.pubkey, <<payer.v>>, blockhash.v)
        serialized_tx == bincode_serialize("Transaction", transaction.v)
    IN  IF ~tree_authority.ok
        THEN Failed(order, "tree_authority", "Invalid pubkey format for tree authority")
        ELSE IF ~leaf_owner.ok
        THEN Failed(order, "leaf_owner", "Invalid pubkey format for leaf owner")
        ELSE IF ~leaf_delegate.ok
        THEN Failed(order, "leaf_delegate", "Invalid pubkey format for leaf delegate")
        ELSE IF ~merkle_tree.ok
        THEN Failed(order, "merkle_tree", "Invalid pubkey format for merkle tree")
        ELSE IF ~payer.ok
        THEN Failed(order, "payer", "Invalid pubkey format for payer")
        ELSE IF ~collection_authority.ok
        THEN Failed(order, "collection_authority",
                    "Invalid pubkey format for collection authority")
        ELSE IF ~collection_mint.ok
        THEN Failed(order, "collection_mint", "Invalid pubkey format for collection mint")
        ELSE IF ~collection_metadata.ok
        THEN Failed(order, "collection_metadata",
                    "Invalid pubkey format for collection metadata")
        ELSE IF ~collection_master_edition.ok
        THEN Failed(order, "collection_master_edition",
                    "Invalid pubkey format for collection master edition")
        ELSE IF ~metadata.ok
        THEN Failed(order, "metadata_args", metadata.msg)
        ELSE IF ~blockhash.ok
        THEN Failed(order, "recent_blockhash", "Invalid blockhash")
        ELSE IF ~transaction.ok
        THEN Panicked(order, transaction.msg, ixs)
        ELSE IF ~serialized_tx.ok
        THEN Failed(order, "SERIALIZE", "Failed to serialize create tree config instruction")
        ELSE Returned(order, ixs, serialized_tx.v, signatures_to_vecs(transaction.v))

\* the loop with `continue` in place of `?` on an address that does not parse
RECURSIVE push_proof_addresses_skipping_bad(_, _)
push_proof_addresses_skipping_bad(accounts, proof_addresses) ==
    IF proof_addresses = <<>>
    THEN [ok |-> TRUE, v |-> accounts, msg |-> "", parsed |-> 0]
    ELSE LET proof_pubkey == Pubkey_from_str(Head(proof_addresses))
             rest == push_proof_addresses_skipping_bad(
                        IF proof_pubkey.ok
                        THEN Append(accounts, AccountMeta_new_readonly(proof_pubkey.v, FALSE))
                        ELSE accounts,
                        Tail(proof_addresses))
         IN  [rest EXCEPT !.parsed = @ + 1]

\* the loop with insert(0, ..) in place of push
RECURSIVE push_proof_addresses_in_front(_, _)
push_proof_addresses_in_front(accounts, proof_addresses) ==
    IF proof_addresses = <<>>
    THEN [ok |-> TRUE, v |-> accounts, msg |-> "", parsed |-> 0]
    ELSE LET proof_pubkey == Pubkey_from_str(Head(proof_addresses))
         IN  IF ~proof_pubkey.ok
             THEN [ok |-> FALSE, v |-> accounts,
                   msg |-> "Invalid pubkey format for proof address", parsed |-> 1]
             ELSE LET rest == push_proof_addresses_in_front(
                                 <<AccountMeta_new_readonly(proof_pubkey.v, FALSE)>>
                                 \o accounts,
                                 Tail(proof_addresses))
                  IN  [rest EXCEPT !.parsed = @ + 1]

\* the loop over proof_addresses: v is the account list after the loop,
\* parsed the number of addresses the loop looked at
RECURSIVE push_proof_addresses(_, _)
push_proof_addresses(accounts, proof_addresses) ==
    IF proof_addresses = <<>>
    THEN [ok |-> TRUE, v |-> accounts, msg |-> "", parsed |-> 0]
    ELSE LET proof_pubkey == Pubkey_from_str(Head(proof_addresses))
         IN  IF ~proof_pubkey.ok
             THEN [ok |-> FALSE, v |-> accounts,
                   msg |-> "Invalid pubkey format for proof address", parsed |-> 1]
             ELSE LET rest == push_proof_addresses(
                                 Append(accounts,
                                        AccountMeta_new_readonly(proof_pubkey.v, FALSE)),
                                 Tail(proof_addresses))
                  IN  [rest EXCEPT !.parsed = @ + 1]

\* the statements of transfer_ix up to the construction of the instruction
transfer_order_to_build ==
    <<"tree_authority", "leaf_owner", "leaf_delegate", "new_leaf_owner",
      "merkle_tree", "payer", "recent_blockhash", "root_hash", "data_hash",
      "creator_hash", "BUILD">>

\* all of them, when the loop has looked at `parsed` proof addresses
transfer_order(parsed) ==
    transfer_order_to_build
    \o [i \in 1..parsed |-> "proof_addresses"]
    \o <<"SIGN", "SERIALIZE", "SERIALIZE">>

transfer_ix(a) ==
    LET tree_authority == Pubkey_from_str(a.tree_authority)
        leaf_owner == Pubkey_from_str(a.leaf_owner)
        leaf_delegate == Pubkey_from_str(a.leaf_delegate)
        new_leaf_owner == Pubkey_from_str(a.new_leaf_owner)
        merkle_tree == Pubkey_from_str(a.merkle_tree)
        payer == Keypair_from_bytes(a.payer.secret)
        blockhash == Hash_from_str(a.recent_blockhash)
        root == vec_to_array32(a.root_hash)
        data_hash == vec_to_array32(a.data_hash)
        creator_hash == vec_to_array32(a.creator_hash)
        built ==
            Transfer_instruction(
                [tree_config |-> tree_authority.v,
                 leaf_owner |-> <<leaf_owner.v, TRUE>>,
                 leaf_delegate |-> <<leaf_delegate.v, TRUE>>,
                 new_leaf_owner |-> new_leaf_owner.v,
                 merkle_tree |-> merkle_tree.v,
                 log_wrapper |-> spl_noop_ID,
                 compression_program |-> spl_account_compression_ID,
                 system_program |-> system_program_ID],
                [root |-> root.v,
                 data_hash |-> data_hash.v,
                 creator_hash |-> creator_hash.v,
                 nonce |-> a.nonce,
                 index |-> a.index])
        pushed == push_proof_addresses(built.accounts, a.proof_addresses)
        transfer == [built EXCEPT !.accounts = pushed.v]
        order == transfer_order(pushed.parsed)
        ixs == <<transfer>>
        transaction ==
            Transaction_new_signed_with_payer(ixs, payer.v.pubkey, <<payer.v>>, blockhash.v)
        serialized_tx == bincode_serialize("Transaction", transaction.v)
        serialized_twice == bincode_serialize("Vec<u8>", serialized_tx.v)
    IN  IF ~tree_authority.ok
        THEN Failed(order, "tree_authority", "Invalid pubkey format for tree authority")
        ELSE IF ~leaf_owner.ok
        THEN Failed(order, "leaf_owner", "Invalid pubkey format for leaf owner")
        ELSE IF ~leaf_delegate.ok
        THEN Failed(order, "leaf_delegate", "Invalid pubkey format for leaf delegate")
        ELSE IF ~new_leaf_owner.ok
        THEN Failed(order, "new_leaf_owner", "Invalid pubkey format for new leaf owner")
        ELSE IF ~merkle_tree.ok
        THEN Failed(order, "merkle_tree", "Invalid pubkey format for merkle tree")
        ELSE IF ~payer.ok
        THEN Failed(order, "payer", "Invalid payer keypair")
        ELSE IF ~blockhash.ok
        THEN Failed(order, "recent_blockhash", "Invalid blockhash")
        ELSE IF ~root.ok
        THEN Failed(order, "root_hash", root.msg)
        ELSE IF ~data_hash.ok
        THEN Failed(order, "data_hash", data_hash.msg)
        ELSE IF ~creator_hash.ok
        THEN Failed(order, "creator_hash", creator_hash.msg)
        ELSE IF ~pushed.ok
        THEN [Failed(order, "proof_addresses", pushed.msg)
                EXCEPT !.steps = SubSeq(order, 1, Len(transfer_order_to_build) + pushed.parsed)]
        ELSE IF ~transaction.ok
        THEN Panicked(order, transaction.msg, ixs)
        ELSE IF ~serialized_tx.ok
        THEN Failed(order, "SERIALIZE", "Failed to serialize create tree config instruction")
        ELSE IF ~serialized_twice.ok
        THEN Failed(order, "SERIALIZE", "Failed to serialize instruction")
        ELSE Returned(order, ixs, serialized_twice.v, signatures_to_vecs(transaction.v))

(***************************************************************************)
(* The calls the host can make: every argument is drawn from a small set   *)
(* holding well-formed and malformed values.                               *)
(***************************************************************************)
BadText == "not-base58"

KeyPairInfos ==
    {[pubkey |-> "addrA", secret |-> "secretA"],
     [pubkey |-> "addrB", secret |-> "secretB"],
     [pubkey |-> "addrA", secret |-> "not-a-keypair"]}

TreeKeyPairInfos ==
    {[pubkey |-> "addrM", secret |-> "secretM"],
     [pubkey |-> "addrA", secret |-> "secretA"],
     [pubkey |-> "addrM", secret |-> "not-a-keypair"]}

BlockhashTexts == {"hashH", "not-a-hash"}

\* Vec<u8> of length n
Bytes(n) == [i \in 1..n |-> 0]
HashVecs == {Bytes(HASH_LEN - 1), Bytes(HASH_LEN), Bytes(HASH_LEN + 1)}

SeqsUpTo(S, n) == UNION {[1..k -> S] : k \in 0..n}

CreatorStructs ==
    {[address |-> "addrA", verified |-> FALSE, share |-> 100],
     [address |-> BadText, verified |-> FALSE, share |-> 100]}

CollectionStructs ==
    {[verified |-> FALSE, key |-> "addrC"], [verified |-> FALSE, key |-> BadText]}

UseCodes == (0..MaxUseCode) \cup {255}

UsesStructs == {[use_method |-> c, remaining |-> 7, total |-> 10] : c \in UseCodes}

MetadataArgsStructs ==
    {[name |-> "nft", symbol |-> "NFT", uri |-> "uri",
      seller_fee_basis_points |-> 500,
      primary_sale_happened |-> FALSE, is_mutable |-> TRUE,
      edition_nonce |-> None,
      creators |-> cs, collection |-> col, uses |-> us] :
        cs \in SeqsUpTo(CreatorStructs, MaxCreators),
        col \in {None} \cup {Some(c) : c \in CollectionStructs},
        us \in {None} \cup {Some(u) : u \in UsesStructs}}

\* what the library decodes
WellFormedAddress(s) == s \in DOMAIN Base58
WellFormedKeyPair(k) == k.secret \in DOMAIN Ed25519
WellFormedBlockhash(s) == s \in DOMAIN Blockhashes
WellFormedHash(h) == Len(h) = HASH_LEN
WellFormedUseCode(c) == c \in {0, 1, 2}
WellFormedMetadata(m) ==
    /\ \A i \in DOMAIN m.creators : WellFormedAddress(m.creators[i].address)
    /\ IsSome(m.collection) => WellFormedAddress(m.collection[1].key)
    /\ IsSome(m.uses) => WellFormedUseCode(m.uses[1].use_method)

WellFormedOptionalAddress(s) == s = "" \/ WellFormedAddress(s)
WellFormedProofs(ps) == \A i \in DOMAIN ps : WellFormedAddress(ps[i])
\* the arguments of a call that no validation of the builder accepts
MalformedFields(n, a) ==
    CASE n = "create_tree_config_ix" ->
            {f \in {"payer_info"} : ~WellFormedKeyPair(a.payer_info)}
            \cup {f \in {"merkle_tree_info"} : ~WellFormedKeyPair(a.merkle_tree_info)}
            \cup {f \in {"recent_blockhash"} : ~WellFormedBlockhash(a.recent_blockhash)}
      [] n = "mint_v1_ix" ->
            {f \in {"tree_authority", "leaf_owner", "leaf_delegate", "merkle_tree"} :
                ~WellFormedAddress(a[f])}
            \cup {f \in {"payer"} : ~WellFormedKeyPair(a.payer)}
            \cup {f \in {"metadata_args"} : ~WellFormedMetadata(a.metadata_args)}
            \cup {f \in {"recent_blockhash"} : ~WellFormedBlockhash(a.recent_blockhash)}
      [] n = "mint_to_collection_v1_ix" ->
            {f \in {"tree_authority", "leaf_owner", "leaf_delegate", "merkle_tree",
                    "collection_authority", "collection_mint"} :
                ~WellFormedAddress(a[f])}
            \cup {f \in {"collection_metadata", "collection_master_edition"} :
                    ~WellFormedOptionalAddress(a[f])}
            \cup {f \in {"payer"} : ~WellFormedKeyPair(a.payer)}
            \cup {f \in {"metadata_args"} : ~WellFormedMetadata(a.metadata_args)}
            \cup {f \in {"recent_blockhash"} : ~WellFormedBlockhash(a.recent_blockhash)}
      [] n = "transfer_ix" ->
            {f \in {"tree_authority", "leaf_owner", "leaf_delegate", "new_leaf_owner",
                    "merkle_tree"} :
                ~WellFormedAddress(a[f])}
            \cup {f \in {"root_hash", "creator_hash", "data_hash"} : ~WellFormedHash(a[f])}
            \cup {f \in {"proof_addresses"} : ~WellFormedProofs(a.proof_addresses)}
            \cup {f \in {"payer"} : ~WellFormedKeyPair(a.payer)}
            \cup {f \in {"recent_blockhash"} : ~WellFormedBlockhash(a.recent_blockhash)}

\* the sets of arguments that may be malformed together
Faults(fields) == {F \in SUBSET fields : Cardinality(F) <= MaxMalformed}

\* the values of S for field f: malformed ones when f is in F, well-formed otherwise
Pick(F, f, S, WellFormed(_)) == {x \in S : WellFormed(x) <=> f \notin F}

CreateTreeConfigArgs ==
    UNION {
        [payer_info : Pick(F, "payer_info", KeyPairInfos, WellFormedKeyPair),
         merkle_tree_info :
             Pick(F, "merkle_tree_info", TreeKeyPairInfos, WellFormedKeyPair),
         max_depth : {14, 30, 31, 1000000},
         max_buffer_size : {64, 2048, 2049, 1000000},
         recent_blockhash :
             Pick(F, "recent_blockhash", BlockhashTexts, WellFormedBlockhash),
         public : BOOLEAN,
         lamports : {1000000},
         account_size : {31800}] :
        F \in Faults({"payer_info", "merkle_tree_info", "recent_blockhash"})}

MintV1Args ==
    UNION {
        [tree_authority :
             Pick(F, "tree_authority", {"addrT", BadText}, WellFormedAddress),
         leaf_owner :
             Pick(F, "leaf_owner", {"addrA", "addrB", BadText}, WellFormedAddress),
         leaf_delegate :
             Pick(F, "leaf_delegate", {"addrA", BadText}, WellFormedAddress),
         merkle_tree : Pick(F, "merkle_tree", {"addrM", BadText}, WellFormedAddress),
         payer : Pick(F, "payer", KeyPairInfos, WellFormedKeyPair),
         metadata_args :
             Pick(F, "metadata_args", MetadataArgsStructs, WellFormedMetadata),
         recent_blockhash :
             Pick(F, "recent_blockhash", BlockhashTexts, WellFormedBlockhash)] :
        F \in Faults({"tree_authority", "leaf_owner", "leaf_delegate", "merkle_tree",
                      "payer", "metadata_args", "recent_blockhash"})}

MintToCollectionV1Args ==
    UNION {
        [tree_authority :
             Pick(F, "tree_authority", {"addrT", BadText}, WellFormedAddress),
         leaf_owner : Pick(F, "leaf_owner", {"addrB", BadText}, WellFormedAddress),
         leaf_delegate :
             Pick(F, "leaf_delegate", {"addrB", BadText}, WellFormedAddress),
         merkle_tree : Pick(F, "merkle_tree", {"addrM", BadText}, WellFormedAddress),
         payer : Pick(F, "payer", KeyPairInfos, WellFormedKeyPair),
         collection_authority :
             Pick(F, "collection_authority", {"addrA", "addrB", BadText},
                  WellFormedAddress),
         collection_mint :
             Pick(F, "collection_mint", {"addrC", BadText}, WellFormedAddress),
         collection_metadata :
             Pick(F, "collection_metadata", {"", "addrX", BadText},
                  WellFormedOptionalAddress),
         collection_master_edition :
             Pick(F, "collection_master_edition", {"", "addrY", BadText},
                  WellFormedOptionalAddress),
         metadata_args :
             Pick(F, "metadata_args", MetadataArgsStructs, WellFormedMetadata),
         recent_blockhash :
             Pick(F, "recent_blockhash", BlockhashTexts, WellFormedBlockhash)] :
        F \in Faults({"tree_authority", "leaf_owner", "leaf_delegate", "merkle_tree",
                      "payer", "collection_authority", "collection_mint",
                      "collection_metadata", "collection_master_edition",
                      "metadata_args", "recent_blockhash"})}

TransferArgs ==
    UNION {
        [tree_authority :
             Pick(F, "tree_authority", {"addrT", BadText}, WellFormedAddress),
         leaf_owner :
             Pick(F, "leaf_owner", {"addrA", "addrB", BadText}, WellFormedAddress),
         leaf_delegate :
             Pick(F, "leaf_delegate", {"addrA", "addrB", BadText}, WellFormedAddress),
         new_leaf_owner :
             Pick(F, "new_leaf_owner", {"addrN", BadText}, WellFormedAddress),
         merkle_tree : Pick(F, "merkle_tree", {"addrM", BadText}, WellFormedAddress),
         root_hash : Pick(F, "root_hash", HashVecs, WellFormedHash),
         creator_hash : Pick(F, "creator_hash", HashVecs, WellFormedHash),
         data_hash : Pick(F, "data_hash", HashVecs, WellFormedHash),
         nonce : {5},
         index : {5},
         proof_addresses :
             Pick(F, "proof_addresses",
                  SeqsUpTo({"addrP", "addrQ", BadText}, MaxProofs), WellFormedProofs),
         recent_blockhash :
             Pick(F, "recent_blockhash", BlockhashTexts, WellFormedBlockhash),
         payer : Pick(F, "payer", KeyPairInfos, WellFormedKeyPair)] :
        F \in Faults({"tree_authority", "leaf_owner", "leaf_delegate", "new_leaf_owner",
                      "merkle_tree", "root_hash", "creator_hash", "data_hash",
                      "proof_addresses", "recent_blockhash", "payer"})}

ArgsOf(n) ==
    CASE n = "create_tree_config_ix" -> CreateTreeConfigArgs
      [] n = "mint_v1_ix" -> MintV1Args
      [] n = "mint_to_collection_v1_ix" -> MintToCollectionV1Args
      [] n = "transfer_ix" -> TransferArgs

Nifs == {"create_tree_config_ix", "mint_v1_ix", "mint_to_collection_v1_ix", "transfer_ix"}

\* the builder behind a NIF name
Run(n, a) ==
    CASE n = "create_tree_config_ix" -> create_tree_config_ix(a)
      [] n = "mint_v1_ix" -> mint_v1_ix(a)
      [] n = "mint_to_collection_v1_ix" -> mint_to_collection_v1_ix(a)
      [] n = "transfer_ix" -> transfer_ix(a)

(***************************************************************************)
(* The state machine: one pending call, then its outcome.                  *)
(***************************************************************************)
Init ==
    /\ nif \in Nifs
    /\ args \in ArgsOf(nif)
    /\ out = Pending

CreateTreeConfigIx ==
    /\ nif = "create_tree_config_ix"
    /\ out.tag = "pending"
    /\ out' = create_tree_config_ix(args)
    /\ UNCHANGED <<nif, args>>

MintV1Ix ==
    /\ nif = "mint_v1_ix"
    /\ out.tag = "pending"
    /\ out' = mint_v1_ix(args)
    /\ UNCHANGED <<nif, args>>

MintToCollectionV1Ix ==
    /\ nif = "mint_to_collection_v1_ix"
    /\ out.tag = "pending"
    /\ out' = mint_to_collection_v1_ix(args)
    /\ UNCHANGED <<nif, args>>

TransferIx ==
    /\ nif = "transfer_ix"
    /\ out.tag = "pending"
    /\ out' = transfer_ix(args)
    /\ UNCHANGED <<nif, args>>

Next ==
    \/ CreateTreeConfigIx
    \/ MintV1Ix
    \/ MintToCollectionV1Ix
    \/ TransferIx

Spec == Init /\ [][Next]_vars

(***************************************************************************)
(* Vocabulary of the properties.                                           *)
(***************************************************************************)
Called == out.tag # "pending"
Malformed == MalformedFields(nif, args)
HashFields == {"root_hash", "creator_hash", "data_hash"}
MintNifs == {"mint_v1_ix", "mint_to_collection_v1_ix"}
HashLengthError == "Vector length must be 32"

\* the TransactionStruct handed back to the host
Ret == out.ret[1]
\* bincode::deserialize of serialized bytes
Deserialize(bytes) == bytes.value[1]
\* the transaction a returned message holds, however often it was serialized
ReturnedTransaction ==
    IF Ret.message.type = "Transaction"
    THEN Deserialize(Ret.message)
    ELSE Deserialize(Deserialize(Ret.message))

\* the payer of the pending call
PayerInfo == IF nif = "create_tree_config_ix" THEN args.payer_info ELSE args.payer
PayerKey == Ed25519[PayerInfo.secret]

\* the accounts the built instructions mark as signers, and the fee payer
RequiredSigners ==
    {PayerKey} \cup
    UNION {{out.ixs[i].accounts[j].pubkey :
               j \in {k \in 1..Len(out.ixs[i].accounts) :
                          out.ixs[i].accounts[k].is_signer}} :
           i \in DOMAIN out.ixs}

IsValidation(step) == step \notin {"BUILD", "SIGN", "SERIALIZE"}

\* the arguments a builder validates
ValidatedFields(n) ==
    CASE n = "create_tree_config_ix" ->
            {"payer_info", "merkle_tree_info", "recent_blockhash"}
      [] n = "mint_v1_ix" ->
            {"tree_authority", "leaf_owner", "leaf_delegate", "merkle_tree",
             "payer", "metadata_args", "recent_blockhash"}
      [] n = "mint_to_collection_v1_ix" ->
            {"tree_authority", "leaf_owner", "leaf_delegate", "merkle_tree",
             "payer", "collection_authority", "collection_mint",
             "collection_metadata", "collection_master_edition",
             "metadata_args", "recent_blockhash"}
      [] n = "transfer_ix" ->
            {"tree_authority", "leaf_owner", "leaf_delegate", "new_leaf_owner",
             "merkle_tree", "root_hash", "creator_hash", "data_hash",
             "proof_addresses", "recent_blockhash", "payer"}

(***************************************************************************)
(* C1: in transfer_ix, with every other argument well-formed, a root_hash, *)
(* creator_hash or data_hash whose length is not 32 makes the call fail    *)
(* with the hash-length error and return nothing; when all three are 32    *)
(* bytes long the call does not fail with the hash-length error.           *)
(***************************************************************************)
C1_TransferHashLength ==
    (nif = "transfer_ix" /\ Called /\ Malformed \subseteq HashFields) =>
        IF \E f \in HashFields : Len(args[f]) # 32
        THEN /\ out.tag = "error"
             /\ out.msg = HashLengthError
             /\ out.ret = <<>>
             /\ out.ixs = <<>>
        ELSE ~(out.tag = "error" /\ out.msg = HashLengthError)

C1_Witness ==
    /\ nif = "transfer_ix"
    /\ Called
    /\ Malformed = {"creator_hash"}
    /\ Len(args.creator_hash) = 33
    /\ out.tag = "error"
    /\ out.msg = HashLengthError

C2_UseMethodName(code) ==
    CASE code = 0 -> "Burn" [] code = 1 -> "Multiple" [] code = 2 -> "Single"

(***************************************************************************)
(* C2: when the metadata of a mint carries a usage descriptor, code 0 is   *)
(* converted to Burn, 1 to Multiple and 2 to Single with remaining and     *)
(* total copied; any other code makes the conversion fail, with the        *)
(* invalid-use-method error when creators and collection are well-formed,  *)
(* and the enclosing mint call fails and returns nothing.                  *)
(***************************************************************************)
C2_UseMethodMapping ==
    (nif \in MintNifs /\ Called /\ IsSome(args.metadata_args.uses)) =>
        LET m == args.metadata_args
            u == m.uses[1]
            converted == to_rust_metadata_args(m)
            restWellFormed == WellFormedMetadata([m EXCEPT !.uses = None])
            expected == Some([use_method |-> C2_UseMethodName(u.use_method),
                              remaining |-> u.remaining,
                              total |-> u.total])
        IN  IF u.use_method \in {0, 1, 2}
            THEN /\ restWellFormed => (converted.ok /\ converted.v.uses = expected)
                 /\ out.ixs # <<>> => out.ixs[1].data.a.metadata.uses = expected
            ELSE /\ ~converted.ok
                 /\ restWellFormed => converted.msg = "Invalid use method"
                 /\ out.tag = "error"
                 /\ out.ret = <<>>
                 /\ out.ixs = <<>>
                 /\ (Malformed = {"metadata_args"} /\ restWellFormed)
                        => out.msg = "Invalid use method"

C2_Witness ==
    /\ nif = "mint_to_collection_v1_ix"
    /\ Called
    /\ IsSome(args.metadata_args.uses)
    /\ args.metadata_args.uses[1].use_method = 5
    /\ out.tag = "error"
    /\ out.msg = "Invalid use method"

C3_Min(a, b) == IF a < b THEN a ELSE b

(***************************************************************************)
(* C3: the create-tree instruction of create_tree_config_ix carries        *)
(* min(max_depth, 30) and min(max_buffer_size, 2048).                      *)
(***************************************************************************)
C3_ClampsDepthAndBufferSize ==
    (nif = "create_tree_config_ix" /\ out.tag = "ok") =>
        LET encoded == ReturnedTransaction.message.instructions[2].data.a
        IN  /\ encoded.max_depth = C3_Min(args.max_depth, 30)
            /\ encoded.max_buffer_size = C3_Min(args.max_buffer_size, 2048)

(***************************************************************************)
(* C4: a returned transaction has the payer as its first account key; its  *)
(* signatures are one per distinct required signer, each made by the       *)
(* signer at the same position of the message's account keys, over that    *)
(* message; create_tree_config_ix with distinct payer and merkle-tree key  *)
(* pairs returns two signatures, the payer's first.                        *)
(***************************************************************************)
C4_SignaturesMatchSigners ==
    out.tag = "ok" =>
        LET tx == ReturnedTransaction
            keys == tx.message.account_keys
            n == Len(Ret.signatures)
        IN  /\ keys[1] = PayerKey
            /\ n = Cardinality(RequiredSigners)
            /\ n = tx.message.num_required_signatures
            /\ {keys[i] : i \in 1..n} = RequiredSigners
            /\ \A i \in 1..n :
                   Ret.signatures[i] =
                       [type |-> "Vec<u8>",
                        of |-> [signer |-> keys[i], signed |-> <<tx.message>>]]
            /\ (nif = "create_tree_config_ix"
                /\ Ed25519[args.merkle_tree_info.secret] # PayerKey)
                   => (n = 2 /\ Ret.signatures[1].of.signer = PayerKey)

C4_Witness ==
    /\ nif = "create_tree_config_ix"
    /\ out.tag = "ok"
    /\ args.payer_info.secret = "secretB"
    /\ args.merkle_tree_info.secret = "secretM"
    /\ Len(Ret.signatures) = 2
    /\ Ret.signatures[1].of.signer = <<"key", "B">>
    /\ Ret.signatures[2].of.signer = <<"key", "M">>

(***************************************************************************)
(* C5: the accounts of the transfer instruction are the eight fixed        *)
(* accounts followed by the proof addresses in the order supplied, each    *)
(* read-only and not a signer; a returned message refers to them in the    *)
(* same order.                                                             *)
(***************************************************************************)
C5_ProofAccountsInOrder ==
    (nif = "transfer_ix" /\ out.ixs # <<>>) =>
        LET accounts == out.ixs[1].accounts
            proofs == args.proof_addresses
            fixed == <<Base58[args.tree_authority], Base58[args.leaf_owner],
                       Base58[args.leaf_delegate], Base58[args.new_leaf_owner],
                       Base58[args.merkle_tree], spl_noop_ID,
                       spl_account_compression_ID, system_program_ID>>
        IN  /\ Len(accounts) = Len(fixed) + Len(proofs)
            /\ \A i \in DOMAIN fixed : accounts[i].pubkey = fixed[i]
            /\ \A i \in DOMAIN proofs :
                   accounts[Len(fixed) + i] =
                       [pubkey |-> Base58[proofs[i]],
                        is_signer |-> FALSE, is_writable |-> FALSE]
            /\ out.tag = "ok" =>
                   LET message == ReturnedTransaction.message
                       compiled == message.instructions[1].accounts
                   IN  /\ Len(compiled) = Len(fixed) + Len(proofs)
                       /\ \A i \in DOMAIN proofs :
                              message.account_keys[compiled[Len(fixed) + i]]
                                  = Base58[proofs[i]]

C5_Witness ==
    /\ nif = "transfer_ix"
    /\ out.tag = "ok"
    /\ args.proof_addresses = <<"addrQ", "addrP">>
    /\ Len(out.ixs[1].accounts) = 10
    /\ out.ixs[1].accounts[9].pubkey = <<"key", "Q">>
    /\ out.ixs[1].accounts[10].pubkey = <<"key", "P">>

(***************************************************************************)
(* C6: in mint_to_collection_v1_ix the collection-metadata account is the  *)
(* address derived from collection_mint when collection_metadata is empty  *)
(* and the parsed argument otherwise, and likewise, independently, for the *)
(* master edition; a non-empty argument that does not parse fails the      *)
(* call.                                                                   *)
(***************************************************************************)
C6_DerivedOnlyWhenEmpty ==
    (nif = "mint_to_collection_v1_ix" /\ Called) =>
        /\ \A f \in {"collection_metadata", "collection_master_edition"} :
              (args[f] # "" /\ args[f] \notin DOMAIN Base58)
                  => (out.tag = "error" /\ out.ret = <<>> /\ out.ixs = <<>>)
        /\ out.ixs # <<>> =>
              LET accounts == out.ixs[1].accounts
                  mint == Base58[args.collection_mint]
              IN  /\ accounts[9].pubkey = mint
                  /\ accounts[10].pubkey =
                        IF args.collection_metadata = ""
                        THEN <<"pda:metadata", mint[2]>>
                        ELSE Base58[args.collection_metadata]
                  /\ accounts[11].pubkey =
                        IF args.collection_master_edition = ""
                        THEN <<"pda:edition", mint[2]>>
                        ELSE Base58[args.collection_master_edition]

C6_Witness ==
    /\ nif = "mint_to_collection_v1_ix"
    /\ out.tag = "ok"
    /\ args.collection_metadata = "addrX"
    /\ args.collection_master_edition = ""
    /\ out.ixs[1].accounts[10].pubkey = <<"key", "X">>
    /\ out.ixs[1].accounts[11].pubkey = <<"pda:edition", "C">>

\* per builder, the pairs <<malformed argument, error message>> of the calls
\* with exactly one malformed argument
C7_SingleFaultErrors ==
    [n \in Nifs |->
        {<<CHOOSE f \in MalformedFields(n, b) : TRUE, Run(n, b).msg>> :
            b \in {c \in ArgsOf(n) : Cardinality(MalformedFields(n, c)) = 1}}]

(***************************************************************************)
(* C7: a call with exactly one malformed argument fails with a message     *)
(* that identifies that argument: no call of the same builder whose one    *)
(* malformed argument is a different one fails with the same message.      *)
(***************************************************************************)
C7_ErrorIdentifiesField ==
    (Called /\ Cardinality(Malformed) = 1) =>
        /\ out.tag = "error"
        /\ \A e \in C7_SingleFaultErrors[nif] :
               e[1] \notin Malformed => e[2] # out.msg

(***************************************************************************)
(* C8: the message of every returned TransactionStruct deserializes, once, *)
(* to the signed transaction whose signatures are the returned signatures. *)
(***************************************************************************)
C8_MessageIsSerializedTransaction ==
    out.tag = "ok" =>
        /\ Ret.message.encoding = "bincode"
        /\ Ret.message.type = "Transaction"
        /\ LET tx == Deserialize(Ret.message)
           IN  Ret.signatures =
                   [i \in DOMAIN tx.signatures |-> signature_to_vec(tx.signatures[i])]

(***************************************************************************)
(* C9: a call whose arguments all pass validation returns a transaction:   *)
(* the key pairs the builder signs with cover every required signer, and   *)
(* signing never aborts the call.                                          *)
(***************************************************************************)
C9_ValidCallReturnsTransaction ==
    (Called /\ Malformed = {}) =>
        /\ out.tag = "ok"
        /\ Len(out.ret) = 1

(***************************************************************************)
(* C10, as stated: no validation of an argument runs after an instruction  *)
(* has been constructed, and a failed validation returns nothing.          *)
(***************************************************************************)
C10_AllValidationBeforeConstruction ==
    Called =>
        /\ \A i, j \in DOMAIN out.steps :
               (i < j /\ out.steps[i] = "BUILD") => ~IsValidation(out.steps[j])
        /\ out.tag = "error" => (out.ret = <<>> /\ out.ixs = <<>>)

(***************************************************************************)
(* C10, amended: the only validations that run after an instruction has    *)
(* been constructed are those of the proof addresses of transfer_ix; no    *)
(* validation runs after signing, and signing is reached only when every   *)
(* validated argument has been checked; a call with a malformed argument   *)
(* ends with an error and returns neither instruction nor transaction.     *)
(***************************************************************************)
C10_ValidationBeforeSigning ==
    Called =>
        /\ \A i, j \in DOMAIN out.steps :
               (i < j /\ out.steps[i] = "BUILD" /\ IsValidation(out.steps[j]))
                   => (nif = "transfer_ix" /\ out.steps[j] = "proof_addresses")
        /\ \A i, j \in DOMAIN out.steps :
               (i < j /\ out.steps[i] = "SIGN") => ~IsValidation(out.steps[j])
        /\ (\E i \in DOMAIN out.steps : out.steps[i] = "SIGN") =>
               \A f \in ValidatedFields(nif) :
                   \/ f = "proof_addresses" /\ args.proof_addresses = <<>>
                   \/ \E i \in DOMAIN out.steps : out.steps[i] = f
        /\ Malformed # {} => out.tag = "error"
        /\ out.tag = "error" => (out.ret = <<>> /\ out.ixs = <<>>)

C10_Witness ==
    /\ nif = "transfer_ix"
    /\ out.tag = "error"
    /\ out.failed = "proof_addresses"
    /\ args.proof_addresses = <<"addrP", "not-base58">>
    /\ \E i \in DOMAIN out.steps : out.steps[i] = "BUILD"
    /\ out.steps[Len(out.steps)] = "proof_addresses"
    /\ out.ret = <<>>

====
